---- MODULE Spec2Model ----
(***************************************************************************)
(* Model of the synchronization engine of buckia: BaseSync.sync, the local *)
(* tree scanners and the checksum calculator of buckia/sync/base.py, run   *)
(* against an abstract provider backend, a local file tree and a bucket.   *)
(* Paths are character strings, so that str.startswith, str.replace and    *)
(* the pathlib / os.path joins are computed character by character.        *)
(***************************************************************************)
EXTENDS Integers, Sequences, FiniteSets, TLC

(***************************************************************************)
(* Bounds of the model.                                                    *)
(***************************************************************************)
\* most files in the local tree and most objects in the bucket at the start
MaxFiles == 2
\* most sync() calls in one behaviour
MaxRuns == 2
\* most backend calls that return false or raise in one behaviour
MaxFailures == 2

(***************************************************************************)
(* The universe of the model: root-relative file paths, in the order in    *)
(* which the directory walk and the provider listing enumerate them, the   *)
(* local root, and the sync_paths lists a caller passes.                   *)
(***************************************************************************)
PathOrder == <<"d/a", "d2/a", "i/x">>
Paths == {PathOrder[k] : k \in 1..Len(PathOrder)}
LocalRoot == "/r"
SyncPathChoices ==
    { <<>>, <<"d">>, <<"d/">>, <<"d\\a">>, <<"/r/d">>, <<"nf", "i/x">>, <<"d", "/r/i">> }

\* file contents; Unreadable marks a file that open() cannot read
Contents == {"c1", "c2"}
Unreadable == "unreadable"
\* value of dict.get("Checksum") when the remote record has no such key
NoChecksum == "None"

(***************************************************************************)
(* String helpers: str.startswith, str.replace("\\", "/"), os.path.dirname *)
(***************************************************************************)
StartsWith(s, p) == Len(p) <= Len(s) /\ SubSeq(s, 1, Len(p)) = p

Char(s, k) == SubSeq(s, k, k)

RECURSIVE ReplaceBackslash(_)
ReplaceBackslash(s) ==
    IF s = "" THEN ""
    ELSE (IF Char(s, 1) = "\\" THEN "/" ELSE Char(s, 1))
         \o ReplaceBackslash(SubSeq(s, 2, Len(s)))

\* the components of s separated by "/" (str.split("/"))
RECURSIVE Components(_, _)
Components(s, cur) ==
    IF s = "" THEN <<cur>>
    ELSE IF Char(s, 1) = "/"
         THEN <<cur>> \o Components(SubSeq(s, 2, Len(s)), "")
         ELSE Components(SubSeq(s, 2, Len(s)), cur \o Char(s, 1))

RECURSIVE JoinComponents(_)
JoinComponents(segs) ==
    IF segs = <<>> THEN ""
    ELSE IF Len(segs) = 1 THEN segs[1]
    ELSE segs[1] \o "/" \o JoinComponents(Tail(segs))

\* str(Path(p)) on POSIX: empty and "." components are dropped, a trailing
\* slash is dropped, the empty path is "."
PathStr(p) ==
    LET segs == SelectSeq(Components(p, ""), LAMBDA c : c # "" /\ c # ".")
        abs  == StartsWith(p, "/")
    IN  IF segs = <<>> THEN (IF abs THEN "/" ELSE ".")
        ELSE (IF abs THEN "/" ELSE "") \o JoinComponents(segs)

\* Path(a) / b : an absolute b replaces a
PathJoin(a, b) ==
    IF StartsWith(b, "/") THEN PathStr(b) ELSE PathStr(a \o "/" \o b)

\* os.path.join(a, b)
OsPathJoin(a, b) ==
    IF StartsWith(b, "/") THEN b
    ELSE IF a = "" \/ Char(a, Len(a)) = "/" THEN a \o b
    ELSE a \o "/" \o b

\* os.path.dirname(s): everything before the last "/"
RECURSIVE Dirname(_)
Dirname(s) ==
    IF s = "" THEN ""
    ELSE IF Char(s, Len(s)) = "/"
         THEN (IF Len(s) = 1 THEN "/" ELSE SubSeq(s, 1, Len(s) - 1))
         ELSE Dirname(SubSeq(s, 1, Len(s) - 1))

\* os.path.relpath(full, root) for a path below root
RelPath(full, root) == SubSeq(full, Len(root) + 2, Len(full))

\* the elements of S in enumeration order
SeqOf(S) == SelectSeq(PathOrder, LAMBDA p : p \in S)

RECURSIVE Range(_)
Range(s) == IF s = <<>> THEN {} ELSE {Head(s)} \cup Range(Tail(s))

VARIABLES
    local,          \* the local tree: root-relative path -> content
    dirs,           \* the directories below the root (absolute paths)
    remote,         \* the bucket: path -> [content, Checksum]
    algorithm,      \* config.checksum_algorithm
    sync_paths,     \* option of sync()
    delete_orphaned,\* option of sync()
    dry_run,        \* option of the current sync() call
    pc,             \* position of sync(): idle, uploading, downloading,
                    \* deleting, returned, raised
    i,              \* enumerate() index in the list being processed
    inflight,       \* backend calls started and not yet returned
    local_files,    \* the scanned map of the current call
    remote_files,   \* the listing taken by the current call
    to_upload, to_download, to_delete,
    result,         \* the SyncResult of the current call
    calls,          \* backend calls of the current call, in order
    run,            \* number of sync() calls started
    failures,       \* backend calls that failed so far
    before,         \* local tree, directories and bucket when the call started
    prev,           \* options and result of the previous call
    max_workers,    \* option of sync()
    progress_callback, \* option of sync(): "None" or "given"
    include_pattern,\* option of sync(): "None" or a pattern
    exclude_pattern,\* option of sync(): "None" or a pattern
    progress,       \* the invocations of progress_callback in the current call
    returns,        \* what the backend calls of the current call returned, in order
    cli_pc,         \* position of cmd_sync: off, main, config, client, sync, done, interrupted
    exit_code,      \* what main() returns, -1 while it runs
    client,         \* the BuckiaClient: none, connected, unconnected, failed
    connects,       \* number of backend.connect() calls of the constructor
    provider,       \* config.provider of the backend in use: none, b2, bunny
    authorized,     \* B2Sync.authorized
    bucket,         \* B2Sync.bucket: None or the handle of the bucket
    config,         \* BuckiaClient.config: the name of the bucket configuration in use
    ret             \* the last call made on a backend or a client, and what it returned

vars == <<local, dirs, remote, algorithm, sync_paths, delete_orphaned, dry_run,
          pc, i, inflight, local_files, remote_files, to_upload, to_download,
          to_delete, result, calls, run, failures, before, prev, max_workers,
          progress_callback, include_pattern, exclude_pattern, progress, returns,
          cli_pc, exit_code, client, connects, provider, authorized, bucket,
          config, ret>>

\* the options sync() only receives, and the state of the command line
optVars == <<max_workers, progress_callback, include_pattern, exclude_pattern>>
cliVars == <<cli_pc, exit_code, client, connects>>
\* the state of the sync engine
engineVars == <<local, dirs, remote, algorithm, sync_paths, delete_orphaned, dry_run,
                pc, i, inflight, local_files, remote_files, to_upload, to_download,
                to_delete, result, calls, run, failures, before, prev, progress,
                returns>>
\* the state of one backend object and of one client object
libVars == <<provider, authorized, bucket, config, ret>>

(***************************************************************************)
(* Checksum calculator.                                                    *)
(***************************************************************************)
\* str.lower() on the letters that occur in algorithm names
LowerChar(c) ==
    CASE c = "S" -> "s" [] c = "H" -> "h" [] c = "A" -> "a"
      [] c = "M" -> "m" [] c = "D" -> "d" [] OTHER -> c

RECURSIVE Lower(_)
Lower(s) == IF s = "" THEN "" ELSE LowerChar(Char(s, 1)) \o Lower(SubSeq(s, 2, Len(s)))

\* hexdigest of content under a hashlib algorithm: distinct for distinct
\* algorithms and distinct contents
HexDigest(hash_func, content) == hash_func \o ":" \o content

\* BaseSync.calculate_checksum, on the content of the file
calculate_checksum(content) ==
    LET alg == Lower(algorithm)
        hash_func == IF alg \in {"sha256", "md5", "sha1"} THEN alg ELSE "sha256"
    IN  IF content = Unreadable THEN "" ELSE HexDigest(hash_func, content)

(***************************************************************************)
(* The local file system below the root.                                   *)
(***************************************************************************)
AbsPath(rel) == LocalRoot \o "/" \o rel

DirPrefix(a) == IF a = "/" THEN "/" ELSE a \o "/"

\* Path.is_file()
IsFile(a) == \E rel \in DOMAIN local : AbsPath(rel) = a

\* Path.is_dir(): a directory below the root, the root or one of its parents
IsDir(a) == a \in dirs \/ StartsWith(DirPrefix(LocalRoot), DirPrefix(a))

\* os.walk(a): the files below a, in enumeration order
Walk(a) ==
    SelectSeq(PathOrder,
              LAMBDA p : p \in DOMAIN local /\ StartsWith(AbsPath(p), DirPrefix(a)))

\* a dict that keeps insertion order: keys is the order, ck the values
EmptyDict == [keys |-> <<>>, ck |-> <<>>]

DictPut(d, k, v) ==
    IF k \in Range(d.keys)
    THEN [d EXCEPT !.ck = [j \in 1..Len(d.keys) |-> IF d.keys[j] = k THEN v ELSE d.ck[j]]]
    ELSE [keys |-> Append(d.keys, k), ck |-> Append(d.ck, v)]

DictGet(d, k) == d.ck[CHOOSE j \in 1..Len(d.keys) : d.keys[j] = k]

RECURSIVE PutFiles(_, _)
PutFiles(d, files) ==
    IF files = <<>> THEN d
    ELSE PutFiles(DictPut(d, Head(files), calculate_checksum(local[Head(files)])),
                  Tail(files))

\* BaseSync.get_local_files
get_local_files(local_path) == PutFiles(EmptyDict, Walk(PathStr(local_path)))

\* BaseSync.get_local_files_in_paths
RECURSIVE ScanPaths(_, _, _)
ScanPaths(d, local_path, paths) ==
    IF paths = <<>> THEN d
    ELSE LET sync_path_full == PathJoin(local_path, Head(paths))
             d2 == IF IsFile(sync_path_full)
                   THEN PutFiles(d, <<RelPath(sync_path_full, PathStr(local_path))>>)
                   ELSE IF IsDir(sync_path_full)
                        THEN PutFiles(d, Walk(sync_path_full))
                        ELSE d
         IN  ScanPaths(d2, local_path, Tail(paths))

\* get_local_files_in_paths scanning the first entry only
get_local_files_in_paths_FirstEntry(local_path, paths) ==
    ScanPaths(EmptyDict, local_path, <<Head(paths)>>)

get_local_files_in_paths(local_path, paths) == ScanPaths(EmptyDict, local_path, paths)

(***************************************************************************)
(* The plan of BaseSync.sync.                                              *)
(***************************************************************************)
\* any(remote_path.startswith(str(p).replace("\\", "/")) for p in sync_paths)
InSyncPaths(remote_path) ==
    \E k \in 1..Len(sync_paths) : StartsWith(remote_path, ReplaceBackslash(sync_paths[k]))

\* protected_patterns = [str(Path(p)) for p in sync_paths]
protected_patterns == [k \in 1..Len(sync_paths) |-> PathStr(sync_paths[k])]

\* protected_patterns and any(target_path.startswith(p) for p in protected_patterns)
IsProtected(remote_path) ==
    LET target_path == OsPathJoin(PathStr(LocalRoot), remote_path)
    IN  \E k \in 1..Len(protected_patterns) : StartsWith(target_path, protected_patterns[k])

\* the local scan of sync()
ScanLocal ==
    IF sync_paths # <<>> THEN get_local_files_in_paths(LocalRoot, sync_paths)
    ELSE get_local_files(LocalRoot)

\* NeedsUpload with the checksum comparison left out
NeedsUpload_OnlyNew(lf, rf, relative_path) == relative_path \notin DOMAIN rf

\* the upload test of one scanned path
NeedsUpload(lf, rf, relative_path) ==
    \/ relative_path \notin DOMAIN rf
    \/ rf[relative_path].Checksum # DictGet(lf, relative_path)

PlanUpload(lf, rf) == SelectSeq(lf.keys, LAMBDA p : NeedsUpload(lf, rf, p))

\* PlanUnchanged counting every scanned path
PlanUnchanged_CountsAll(lf, rf) == Len(lf.keys)

PlanUnchanged(lf, rf) == Len(SelectSeq(lf.keys, LAMBDA p : ~NeedsUpload(lf, rf, p)))

\* NeedsDelete with the sync_paths test left out
NeedsDelete_NoScope(lf, remote_path) == remote_path \notin Range(lf.keys)

\* the deletion test of one listed path
NeedsDelete(lf, remote_path) ==
    /\ remote_path \notin Range(lf.keys)
    /\ (sync_paths # <<>> => InSyncPaths(remote_path))

PlanDelete(lf, rf) ==
    IF delete_orphaned
    THEN SelectSeq(SeqOf(DOMAIN rf), LAMBDA p : NeedsDelete(lf, p))
    ELSE <<>>

\* NeedsDownload leaving out the paths the run is going to delete
NeedsDownload_NotIfDeleted(lf, remote_path) ==
    /\ ~IsProtected(remote_path)
    /\ ~(sync_paths # <<>> /\ ~InSyncPaths(remote_path))
    /\ remote_path \notin Range(lf.keys)
    /\ ~delete_orphaned

\* the download test of one listed path
NeedsDownload(lf, remote_path) ==
    /\ ~IsProtected(remote_path)
    /\ ~(sync_paths # <<>> /\ ~InSyncPaths(remote_path))
    /\ remote_path \notin Range(lf.keys)

PlanDownload(lf, rf) == SelectSeq(SeqOf(DOMAIN rf), LAMBDA p : NeedsDownload(lf, p))

PlanProtectedSkipped(rf) == Len(SelectSeq(SeqOf(DOMAIN rf), LAMBDA p : IsProtected(p)))

\* SyncResult()
NewResult == [success |-> TRUE, uploaded |-> 0, downloaded |-> 0, deleted |-> 0,
              failed |-> 0, unchanged |-> 0, errors |-> <<>>, protected_skipped |-> 0]

(***************************************************************************)
(* Initial states: a local tree and a bucket of at most MaxFiles files     *)
(* each, the options of the caller, and no sync() call made yet.           *)
(***************************************************************************)
LocalValues == Contents \cup {Unreadable}

\* objects in the bucket at the start: the provider reports the digest of
\* the content, an empty checksum, or no checksum at all
RemoteRecords ==
    { [content |-> "c1", Checksum |-> HexDigest("sha256", "c1")],
      [content |-> "c1", Checksum |-> ""],
      [content |-> "c1", Checksum |-> NoChecksum] }

SmallSets == {S \in SUBSET Paths : Cardinality(S) <= MaxFiles}

NoPrev == [valid |-> FALSE, dry_run |-> FALSE, result |-> NewResult]

\* no sync() call made yet
EngineIdle ==
    /\ dirs = {Dirname(AbsPath(p)) : p \in DOMAIN local}
    /\ dry_run = FALSE
    /\ pc = "idle"
    /\ i = 0
    /\ inflight = {}
    /\ local_files = EmptyDict
    /\ remote_files = <<>>
    /\ to_upload = <<>>
    /\ to_download = <<>>
    /\ to_delete = <<>>
    /\ result = NewResult
    /\ calls = <<>>
    /\ run = 0
    /\ failures = 0
    /\ before = [local |-> local, dirs |-> dirs, remote |-> remote]
    /\ prev = NoPrev
    /\ progress = <<>>
    /\ returns = <<>>

\* sync(local_path, delete_orphaned=..., sync_paths=...): the defaults of the
\* other parameters, max_workers = 4, no callback, no patterns
DefaultOptions ==
    /\ max_workers = 4
    /\ progress_callback = "None"
    /\ include_pattern = "None"
    /\ exclude_pattern = "None"

\* sync() is called on the backend directly, not through the command line
CliOff ==
    /\ cli_pc = "off"
    /\ exit_code = -1
    /\ client = "none"
    /\ connects = 0

\* no call made yet on a backend or a client
NoRet == [op |-> "none"]

\* no backend object and no client object in use
LibOff ==
    /\ provider = "none"
    /\ authorized = FALSE
    /\ bucket = "None"
    /\ config = "None"
    /\ ret = NoRet

Init ==
    /\ local \in UNION {[S -> LocalValues] : S \in SmallSets}
    /\ remote \in UNION {[S -> RemoteRecords] : S \in SmallSets}
    /\ algorithm = "sha256"
    /\ sync_paths \in SyncPathChoices
    /\ delete_orphaned \in BOOLEAN
    /\ EngineIdle
    /\ DefaultOptions
    /\ CliOff
    /\ LibOff

(***************************************************************************)
(* sync(): the scan, the listing and the plan, then either the dry-run     *)
(* report or the three loops, one backend call at a time.                  *)
(***************************************************************************)
\* where sync() stands once the loop over the current list is left
AfterDownloads(del) == IF del # <<>> THEN "deleting" ELSE "returned"
\* AfterUploads with the loop over deletions placed before the downloads
AfterUploads_DeletionsFirst(down, del) ==
    IF del # <<>> THEN "deleting" ELSE IF down # <<>> THEN "downloading" ELSE "returned"

AfterUploads(down, del) == IF down # <<>> THEN "downloading" ELSE AfterDownloads(del)
AfterPlan(up, down, del) == IF up # <<>> THEN "uploading" ELSE AfterUploads(down, del)

\* Finish with the last assignment to success left out
Finish_KeepsDefault(res, nextpc) == res

\* result.success = result.failed == 0, once the last loop is left
Finish(res, nextpc) ==
    IF nextpc = "returned" THEN [res EXCEPT !.success = (res.failed = 0)] ELSE res

\* the part of sync() that every call runs: lines 278-352
SyncPlan(dry) ==
    /\ pc \in {"idle", "returned"}
    /\ run < MaxRuns
    /\ run' = run + 1
    /\ dry_run' = dry
    /\ prev' = IF run = 0 THEN NoPrev
               ELSE [valid |-> TRUE, dry_run |-> dry_run, result |-> result]
    /\ before' = [local |-> local, dirs |-> dirs, remote |-> remote]
    /\ local_files' = ScanLocal
    /\ remote_files' = remote
    /\ to_upload' = PlanUpload(ScanLocal, remote)
    /\ to_delete' = PlanDelete(ScanLocal, remote)
    /\ to_download' = PlanDownload(ScanLocal, remote)
    /\ calls' = <<>>
    /\ progress' = <<>>
    /\ returns' = <<>>
    /\ i' = 0
    /\ UNCHANGED <<local, dirs, remote, algorithm, sync_paths, delete_orphaned,
                   inflight, failures, optVars, cliVars, libVars>>

\* SyncDryRun returning before the counters are filled in
SyncDryRun_NoCounts ==
    /\ SyncPlan(TRUE)
    /\ result' = [NewResult EXCEPT
                    !.unchanged = PlanUnchanged(ScanLocal, remote),
                    !.protected_skipped = PlanProtectedSkipped(remote)]
    /\ pc' = "returned"

\* SyncDryRun with the early return left out: the loops run after the report
SyncDryRun_FallsThrough ==
    /\ SyncPlan(TRUE)
    /\ pc' = AfterPlan(to_upload', to_download', to_delete')
    /\ result' = Finish([NewResult EXCEPT
                           !.unchanged = PlanUnchanged(ScanLocal, remote),
                           !.protected_skipped = PlanProtectedSkipped(remote),
                           !.uploaded = Len(to_upload'),
                           !.downloaded = Len(to_download'),
                           !.deleted = IF delete_orphaned THEN Len(to_delete') ELSE 0],
                        pc')

\* sync(dry_run=True): lines 355-370
SyncDryRun ==
    /\ SyncPlan(TRUE)
    /\ result' = [NewResult EXCEPT
                    !.unchanged = PlanUnchanged(ScanLocal, remote),
                    !.protected_skipped = PlanProtectedSkipped(remote),
                    !.uploaded = Len(to_upload'),
                    !.downloaded = Len(to_download'),
                    !.deleted = IF delete_orphaned THEN Len(to_delete') ELSE 0]
    /\ pc' = "returned"

\* sync(dry_run=False) up to the first loop
SyncLive ==
    /\ SyncPlan(FALSE)
    /\ pc' = AfterPlan(to_upload', to_download', to_delete')
    /\ result' = Finish([NewResult EXCEPT
                           !.unchanged = PlanUnchanged(ScanLocal, remote),
                           !.protected_skipped = PlanProtectedSkipped(remote)],
                        pc')

Outcomes == {"true", "false", "raise"}

\* Account with a deletion that returned true left uncounted
Account_DeleteUncounted(res, counter, verb, verbing, path, outcome) ==
    CASE outcome = "true" ->
           IF verb = "delete" THEN res ELSE [res EXCEPT ![counter] = @ + 1]
      [] outcome = "false" ->
           [res EXCEPT !.failed = @ + 1,
                       !.errors = Append(@, "Failed to " \o verb \o ": " \o path)]
      [] outcome = "raise" ->
           [res EXCEPT !.failed = @ + 1,
                       !.errors = Append(@, "Error " \o verbing \o " " \o path \o ": boom")]

\* Account with a false return counted but not recorded in errors
Account_FalseUnrecorded(res, counter, verb, verbing, path, outcome) ==
    CASE outcome = "true" ->
           [res EXCEPT ![counter] = @ + 1]
      [] outcome = "false" ->
           [res EXCEPT !.failed = @ + 1]
      [] outcome = "raise" ->
           [res EXCEPT !.failed = @ + 1,
                       !.errors = Append(@, "Error " \o verbing \o " " \o path \o ": boom")]

\* Account with the except branch recording the error without counting it
Account_RaiseUncounted(res, counter, verb, verbing, path, outcome) ==
    CASE outcome = "true" ->
           [res EXCEPT ![counter] = @ + 1]
      [] outcome = "false" ->
           [res EXCEPT !.failed = @ + 1,
                       !.errors = Append(@, "Failed to " \o verb \o ": " \o path)]
      [] outcome = "raise" ->
           [res EXCEPT !.errors = Append(@, "Error " \o verbing \o " " \o path \o ": boom")]

\* the accounting of one backend call: lines 381-391, 405-415, 424-434
Account(res, counter, verb, verbing, path, outcome) ==
    CASE outcome = "true" ->
           [res EXCEPT ![counter] = @ + 1]
      [] outcome = "false" ->
           [res EXCEPT !.failed = @ + 1,
                       !.errors = Append(@, "Failed to " \o verb \o ": " \o path)]
      [] outcome = "raise" ->
           [res EXCEPT !.failed = @ + 1,
                       !.errors = Append(@, "Error " \o verbing \o " " \o path \o ": boom")]

\* the list a loop runs over and the action name it reports
ListOf(verb) ==
    CASE verb = "upload" -> to_upload
      [] verb = "download" -> to_download
      [] verb = "delete" -> to_delete

ActionName(verb) ==
    CASE verb = "upload" -> "uploading"
      [] verb = "download" -> "downloading"
      [] verb = "delete" -> "deleting"

\* ProgressArgs counting the items from 0
ProgressArgs_ZeroBased(k, list, action) == <<k, Len(list), action, list[k + 1]>>

\* progress_callback(i + 1, len(list), action, path): lines 378-379, 402-403,
\* 421-422
ProgressArgs(k, list, action) == <<k + 1, Len(list), action, list[k + 1]>>

\* if progress_callback: progress_callback(...)
Notify(verb) ==
    IF progress_callback # "None"
    THEN Append(progress, ProgressArgs(i, ListOf(verb), ActionName(verb)))
    ELSE progress

\* the callback has returned and the backend is entered: the call is in
\* flight until it returns
EnterCall(verb, path) ==
    /\ inflight = {}
    /\ inflight' = {<<verb, path>>}
    /\ calls' = Append(calls, <<verb, path>>)
    /\ progress' = Notify(verb)
    /\ UNCHANGED <<local, remote, algorithm, sync_paths, delete_orphaned, dry_run,
                   pc, i, local_files, remote_files, to_upload, to_download,
                   to_delete, result, run, failures, before, prev, returns,
                   optVars, cliVars, libVars>>

\* LeaveCall with a failed item tried again
LeaveCall_RetryOnFailure(outcome, nextpc) ==
    /\ outcome # "true" => failures < MaxFailures
    /\ failures' = IF outcome = "true" THEN failures ELSE failures + 1
    /\ inflight' = {}
    /\ i' = IF outcome # "true" THEN i ELSE IF nextpc = pc THEN i + 1 ELSE 0
    /\ pc' = IF outcome # "true" THEN pc ELSE nextpc
    /\ returns' = Append(returns, outcome)
    /\ UNCHANGED <<dirs, algorithm, sync_paths, delete_orphaned, dry_run, local_files,
                   remote_files, to_upload, to_download, to_delete, calls, run,
                   before, prev, progress, optVars, cliVars, libVars>>

\* the bookkeeping shared by the three returns
LeaveCall(outcome, nextpc) ==
    /\ outcome # "true" => failures < MaxFailures
    /\ failures' = IF outcome = "true" THEN failures ELSE failures + 1
    /\ inflight' = {}
    /\ i' = IF nextpc = pc THEN i + 1 ELSE 0
    /\ pc' = nextpc
    /\ returns' = Append(returns, outcome)
    /\ UNCHANGED <<dirs, algorithm, sync_paths, delete_orphaned, dry_run, local_files,
                   remote_files, to_upload, to_download, to_delete, calls, run,
                   before, prev, progress, optVars, cliVars, libVars>>

\* self.upload_file(local_file_path, relative_path) is called
UploadCall ==
    /\ pc = "uploading"
    /\ EnterCall("upload", to_upload[i + 1])
    /\ UNCHANGED dirs

\* upload_file returns or raises; a backend that returns true has stored
\* the file, with the digest of its content as Checksum; it cannot store a
\* file it cannot read
UploadReturn(outcome) ==
    /\ pc = "uploading"
    /\ inflight # {}
    /\ LET path == to_upload[i + 1]
           nextpc == IF i + 1 < Len(to_upload) THEN "uploading"
                     ELSE AfterUploads(to_download, to_delete)
       IN  /\ outcome = "true" => local[path] # Unreadable
           /\ LeaveCall(outcome, nextpc)
           /\ result' = Finish(Account(result, "uploaded", "upload", "uploading",
                                       path, outcome), nextpc)
           /\ remote' = IF outcome = "true"
                        THEN [p \in DOMAIN remote \cup {path} |->
                                IF p = path
                                THEN [content |-> local[path],
                                      Checksum |-> calculate_checksum(local[path])]
                                ELSE remote[p]]
                        ELSE remote
           /\ UNCHANGED local

\* os.makedirs(dirname, exist_ok=True), the callback, then self.download_file
\* is called
DownloadCall ==
    /\ pc = "downloading"
    /\ EnterCall("download", to_download[i + 1])
    /\ dirs' = dirs \cup {Dirname(OsPathJoin(PathStr(LocalRoot), to_download[i + 1]))}

\* download_file returns or raises; a backend that returns true has written
\* the content of the object to the local file
DownloadReturn(outcome) ==
    /\ pc = "downloading"
    /\ inflight # {}
    /\ LET path == to_download[i + 1]
           nextpc == IF i + 1 < Len(to_download) THEN "downloading"
                     ELSE AfterDownloads(to_delete)
       IN  /\ outcome = "true" => path \in DOMAIN remote
           /\ LeaveCall(outcome, nextpc)
           /\ result' = Finish(Account(result, "downloaded", "download", "downloading",
                                       path, outcome), nextpc)
           /\ local' = IF outcome = "true"
                       THEN [p \in DOMAIN local \cup {path} |->
                               IF p = path THEN remote[path].content ELSE local[p]]
                       ELSE local
           /\ UNCHANGED remote

\* self.delete_file(remote_path) is called
DeleteCall ==
    /\ pc = "deleting"
    /\ EnterCall("delete", to_delete[i + 1])
    /\ UNCHANGED dirs

\* delete_file returns or raises; a backend that returns true has removed
\* the object
DeleteReturn(outcome) ==
    /\ pc = "deleting"
    /\ inflight # {}
    /\ LET path == to_delete[i + 1]
           nextpc == IF i + 1 < Len(to_delete) THEN "deleting" ELSE "returned"
       IN  /\ LeaveCall(outcome, nextpc)
           /\ result' = Finish(Account(result, "deleted", "delete", "deleting",
                                       path, outcome), nextpc)
           /\ remote' = IF outcome = "true"
                        THEN [p \in DOMAIN remote \ {path} |-> remote[p]]
                        ELSE remote
           /\ UNCHANGED local

\* progress_callback(i + 1, len(list), action, path) raises: the call stands
\* outside the try of its loop, so the exception leaves sync()
CallbackRaises ==
    /\ pc \in {"uploading", "downloading", "deleting"}
    /\ inflight = {}
    /\ progress_callback # "None"
    /\ progress' = Notify(CASE pc = "uploading" -> "upload"
                            [] pc = "downloading" -> "download"
                            [] pc = "deleting" -> "delete")
    /\ dirs' = IF pc = "downloading"
               THEN dirs \cup {Dirname(OsPathJoin(PathStr(LocalRoot), to_download[i + 1]))}
               ELSE dirs
    /\ pc' = "raised"
    /\ UNCHANGED <<local, remote, algorithm, sync_paths, delete_orphaned, dry_run,
                   i, inflight, local_files, remote_files, to_upload, to_download,
                   to_delete, result, calls, run, failures, before, prev, returns,
                   optVars, cliVars, libVars>>

\* os.makedirs(dirname, exist_ok=True) raises for a directory that is not
\* there yet: the call stands outside the try and before the callback, so
\* the exception leaves sync()
MakedirsFails ==
    /\ pc = "downloading"
    /\ inflight = {}
    /\ Dirname(OsPathJoin(PathStr(LocalRoot), to_download[i + 1])) \notin dirs
    /\ pc' = "raised"
    /\ UNCHANGED <<local, dirs, remote, algorithm, sync_paths, delete_orphaned, dry_run,
                   i, inflight, local_files, remote_files, to_upload, to_download,
                   to_delete, result, calls, run, failures, before, prev, progress,
                   returns, optVars, cliVars, libVars>>

Next ==
    \/ SyncDryRun
    \/ SyncLive
    \/ UploadCall
    \/ \E outcome \in Outcomes : UploadReturn(outcome)
    \/ DownloadCall
    \/ \E outcome \in Outcomes : DownloadReturn(outcome)
    \/ DeleteCall
    \/ \E outcome \in Outcomes : DeleteReturn(outcome)

Spec == Init /\ [][Next]_vars

(***************************************************************************)
(* sync() called with the optional parameters given: a worker ceiling, a   *)
(* progress callback and the two regex filters.                            *)
(***************************************************************************)
\* max_workers values a caller passes: none is validated
WorkerChoices == {0, 1, 4}
\* regex filters in the style of the documented ones
IncludeChoices == {"None", "^d/"}
ExcludeChoices == {"None", "^i/"}

InitOptions ==
    /\ local \in UNION {[S -> {"c1"}] : S \in SmallSets}
    /\ remote \in UNION {[S -> {[content |-> "c1", Checksum |-> HexDigest("sha256", "c1")]}]
                           : S \in SmallSets}
    /\ algorithm = "sha256"
    /\ sync_paths \in {<<>>, <<"d">>}
    /\ delete_orphaned \in BOOLEAN
    /\ EngineIdle
    /\ max_workers \in WorkerChoices
    /\ progress_callback \in {"None", "given"}
    /\ include_pattern \in IncludeChoices
    /\ exclude_pattern \in ExcludeChoices
    /\ CliOff
    /\ LibOff

NextOptions ==
    \/ Next
    \/ CallbackRaises
    \/ MakedirsFails

SpecOptions == InitOptions /\ [][NextOptions]_vars

(***************************************************************************)
(* calculate_checksum called on the files of a tree, under the algorithm   *)
(* names a configuration file can hold.                                    *)
(***************************************************************************)
\* checksum_algorithm of a configuration whose file gives the key no value
NoAlgorithm == "<None>"
\* what a call that raised leaves in ret
Raised == "<raised>"

\* config.checksum_algorithm: from_file passes the value of the file on
AlgorithmChoices == {"sha256", "md5", "sha1", "SHA256", "Md5", "sha512", "", NoAlgorithm}

\* calculate_checksum as a call: .lower() on a value that is not a string
\* raises AttributeError before the try is entered
ChecksumCallResult(content) ==
    IF algorithm = NoAlgorithm THEN Raised ELSE calculate_checksum(content)

ChecksumCall(path) ==
    /\ provider = "checksum"
    /\ path \in DOMAIN local
    /\ ret' = [op |-> "calculate_checksum", path |-> path,
               value |-> ChecksumCallResult(local[path])]
    /\ UNCHANGED <<engineVars, optVars, cliVars, provider, authorized, bucket, config>>

InitChecksum ==
    /\ local \in UNION {[S -> LocalValues] : S \in SmallSets}
    /\ remote = <<>>
    /\ algorithm \in AlgorithmChoices
    /\ sync_paths = <<>>
    /\ delete_orphaned = FALSE
    /\ EngineIdle
    /\ DefaultOptions
    /\ CliOff
    /\ provider = "checksum"
    /\ authorized = FALSE
    /\ bucket = "None"
    /\ config = "None"
    /\ ret = NoRet

NextChecksum == \E path \in Paths : ChecksumCall(path)

SpecChecksum == InitChecksum /\ [][NextChecksum]_vars

(***************************************************************************)
(* The provider backends: B2Sync with its lazy connect, BunnySync with its *)
(* direct API calls.  A provider call either works or fails (a network     *)
(* error, an error status); a provider that works answers truthfully.      *)
(***************************************************************************)
\* how a connect() of B2Sync can go: both provider calls work,
\* authorize_account fails, get_bucket_by_name fails
ConnectOutcomes == {"ok", "authorize_fails", "bucket_fails"}

\* B2Sync.connect: authorized is set between the two provider calls
B2ConnectResult(outcome) ==
    CASE outcome = "ok" ->
           [authorized |-> TRUE, bucket |-> "handle", value |-> TRUE]
      [] outcome = "authorize_fails" ->
           [authorized |-> authorized, bucket |-> bucket, value |-> FALSE]
      [] outcome = "bucket_fails" ->
           [authorized |-> TRUE, bucket |-> bucket, value |-> FALSE]

\* connect() called by the user of the backend
B2Connect(outcome) ==
    /\ provider = "b2"
    /\ LET c == B2ConnectResult(outcome)
       IN  /\ authorized' = c.authorized
           /\ bucket' = c.bucket
           /\ ret' = [op |-> "connect", value |-> c.value]
    /\ UNCHANGED <<engineVars, optVars, cliVars, provider, config>>

\* the head of every operation of B2Sync: connect() if not authorized
B2Lazy(outcome) ==
    IF authorized
    THEN [authorized |-> authorized, bucket |-> bucket, value |-> TRUE, tried |-> FALSE]
    ELSE [authorized |-> B2ConnectResult(outcome).authorized,
          bucket |-> B2ConnectResult(outcome).bucket,
          value |-> B2ConnectResult(outcome).value,
          tried |-> TRUE]

\* the body of an operation reaches the provider when connect did not fail
\* and self.bucket is a handle; on None the AttributeError is caught by the
\* except Exception of the operation
B2Served(c) == c.value /\ c.bucket # "None"

\* the previous call was delete_file(path) and returned true
Repeats(path) == ret.op = "delete_file" /\ ret.path = path /\ ret.value = TRUE

\* the bucket without one object
Without(path) == [p \in DOMAIN remote \ {path} |-> remote[p]]

\* B2Sync.delete_file: FileNotPresent counts as deleted
B2DeleteFile(path, outcome, fault) ==
    /\ provider = "b2"
    /\ LET c == B2Lazy(outcome)
           ok == B2Served(c) /\ ~fault
       IN  /\ authorized' = c.authorized
           /\ bucket' = c.bucket
           /\ remote' = IF ok THEN Without(path) ELSE remote
           /\ ret' = [op |-> "delete_file", path |-> path, value |-> ok,
                      had_bucket |-> bucket # "None", tried |-> c.tried,
                      connected |-> c.value, served |-> ok,
                      present |-> path \in DOMAIN remote, repeat |-> Repeats(path),
                      same |-> remote' = remote]
    /\ UNCHANGED <<local, dirs, algorithm, sync_paths, delete_orphaned, dry_run,
                   pc, i, inflight, local_files, remote_files, to_upload, to_download,
                   to_delete, result, calls, run, failures, before, prev, progress,
                   returns, optVars, cliVars, provider, config>>

\* B2Sync.upload_file of a readable local file
B2UploadFile(path, outcome, fault) ==
    /\ provider = "b2"
    /\ path \in DOMAIN local
    /\ local[path] # Unreadable
    /\ LET c == B2Lazy(outcome)
           ok == B2Served(c) /\ ~fault
       IN  /\ authorized' = c.authorized
           /\ bucket' = c.bucket
           /\ remote' = IF ok
                        THEN [p \in DOMAIN remote \cup {path} |->
                                IF p = path
                                THEN [content |-> local[path],
                                      Checksum |-> HexDigest("sha1", local[path])]
                                ELSE remote[p]]
                        ELSE remote
           /\ ret' = [op |-> "upload_file", path |-> path, value |-> ok,
                      had_bucket |-> bucket # "None", tried |-> c.tried,
                      connected |-> c.value]
    /\ UNCHANGED <<local, dirs, algorithm, sync_paths, delete_orphaned, dry_run,
                   pc, i, inflight, local_files, remote_files, to_upload, to_download,
                   to_delete, result, calls, run, failures, before, prev, progress,
                   returns, optVars, cliVars, provider, config>>

\* B2Sync.list_remote_files: bucket.ls yields the objects one by one and
\* fails after the first k of them; what was put into remote_files before
\* the exception is returned
B2ListRemoteFiles(outcome, k) ==
    /\ provider = "b2"
    /\ k \in 0..Cardinality(DOMAIN remote)
    /\ LET c == B2Lazy(outcome)
           all == SeqOf(DOMAIN remote)
       IN  /\ authorized' = c.authorized
           /\ bucket' = c.bucket
           /\ ret' = [op |-> "list_remote_files", raised |-> FALSE,
                      value |-> IF B2Served(c) THEN Range(SubSeq(all, 1, k)) ELSE {},
                      failed |-> ~B2Served(c) \/ k < Len(all),
                      had_bucket |-> bucket # "None", tried |-> c.tried,
                      connected |-> c.value]
    /\ UNCHANGED <<engineVars, optVars, cliVars, provider, config>>

\* the directory of the bucket a path lies in
TopDir(path) == Components(path, "")[1]

\* BunnySync.list_remote_files over the direct API: one GET for the root and
\* one for every directory in it; failing holds the GETs that fail ("" is
\* the root).  A failed GET of a directory gives {} for that directory and
\* the caller goes on with the next item.
BunnyListing(failing) ==
    IF "" \in failing THEN {}
    ELSE {p \in DOMAIN remote : TopDir(p) \notin failing}

BunnyListRemoteFiles(failing) ==
    /\ provider = "bunny"
    /\ failing \subseteq {""} \cup {TopDir(p) : p \in DOMAIN remote}
    /\ ret' = [op |-> "list_remote_files", raised |-> FALSE, value |-> BunnyListing(failing),
               failed |-> failing # {}]
    /\ UNCHANGED <<engineVars, optVars, cliVars, provider, authorized, bucket, config>>

\* the status codes DELETE on the storage API answers with: 200 or 204 for
\* an object it removed, 404 for an object that is not there (or, as the
\* provider chooses, 200), 500 for a fault
DeleteStatuses == {200, 204, 404, 500}

\* BunnySync.delete_file over the direct API: true for 200 and 204 only
BunnyDeleteFile(path, status) ==
    /\ provider = "bunny"
    /\ status = 404 => path \notin DOMAIN remote
    /\ status = 204 => path \in DOMAIN remote
    /\ remote' = IF status \in {200, 204} THEN Without(path) ELSE remote
    /\ ret' = [op |-> "delete_file", path |-> path,
               value |-> status \in {200, 204},
               served |-> status # 500,
               present |-> path \in DOMAIN remote, repeat |-> Repeats(path),
               same |-> remote' = remote]
    /\ UNCHANGED <<local, dirs, algorithm, sync_paths, delete_orphaned, dry_run,
                   pc, i, inflight, local_files, remote_files, to_upload, to_download,
                   to_delete, result, calls, run, failures, before, prev, progress,
                   returns, optVars, cliVars, provider, authorized, bucket, config>>

InitBackends ==
    /\ local \in UNION {[S -> {"c1"}] : S \in {{}, {"d/a"}}}
    /\ remote \in UNION {[S -> {[content |-> "c1", Checksum |-> HexDigest("sha1", "c1")]}]
                           : S \in SmallSets}
    /\ algorithm = "sha256"
    /\ sync_paths = <<>>
    /\ delete_orphaned = FALSE
    /\ EngineIdle
    /\ DefaultOptions
    /\ CliOff
    /\ provider \in {"b2", "bunny"}
    /\ authorized = FALSE
    /\ bucket = "None"
    /\ config = "None"
    /\ ret = NoRet

NextBackends ==
    \/ \E outcome \in ConnectOutcomes : B2Connect(outcome)
    \/ \E path \in Paths, outcome \in ConnectOutcomes, fault \in BOOLEAN :
          B2DeleteFile(path, outcome, fault)
    \/ \E path \in Paths, outcome \in ConnectOutcomes, fault \in BOOLEAN :
          B2UploadFile(path, outcome, fault)
    \/ \E outcome \in ConnectOutcomes, k \in 0..MaxFiles : B2ListRemoteFiles(outcome, k)
    \/ \E failing \in SUBSET ({""} \cup {TopDir(p) : p \in Paths}) :
          BunnyListRemoteFiles(failing)
    \/ \E path \in Paths, status \in DeleteStatuses : BunnyDeleteFile(path, status)

SpecBackends == InitBackends /\ [][NextBackends]_vars

(***************************************************************************)
(* BuckiaClient.__init__ choosing its bucket configuration from a          *)
(* multi-bucket configuration, given as a BuckiaConfig object or as the    *)
(* path of a file.                                                         *)
(***************************************************************************)
\* names of bucket configurations, in the order of the file
BucketNames == <<"default", "a", "b">>

\* the multi-bucket configurations: one to three entries, in any order
ConfigEntries ==
    {e \in UNION {[1..n -> Range(BucketNames)] : n \in 1..Len(BucketNames)} :
        \A j, l \in 1..Len(e) : j # l => e[j] # e[l]}

\* the bucket_name argument: not given, a present or an absent name
NameChoices == {"None", "default", "a", "b", "c"}

\* the choice made on a BuckiaConfig: the named entry, else "default", else
\* the only entry, else ValueError
SelectBucket(entries, bucket_name) ==
    IF bucket_name # "None"
    THEN (IF bucket_name \in Range(entries) THEN bucket_name ELSE "ValueError")
    ELSE IF "default" \in Range(entries) THEN "default"
    ELSE IF Len(entries) = 1 THEN entries[1]
    ELSE "ValueError"

\* BucketConfig.from_file on a file of several configurations: "default",
\* else the first entry
FromFileSingle(entries) ==
    IF "default" \in Range(entries) THEN "default" ELSE entries[1]

\* the choice of the constructor: for a path the ValueError of the choice is
\* caught and the file is loaded again as a single configuration
ChosenConfig(kind, entries, bucket_name) ==
    IF kind = "path" /\ SelectBucket(entries, bucket_name) = "ValueError"
    THEN FromFileSingle(entries)
    ELSE SelectBucket(entries, bucket_name)

ClientNew(kind, entries, bucket_name) ==
    /\ provider = "client"
    /\ LET chosen == ChosenConfig(kind, entries, bucket_name)
       IN  /\ config' = IF chosen = "ValueError" THEN "None" ELSE chosen
           /\ ret' = [op |-> "BuckiaClient", kind |-> kind, entries |-> entries,
                      bucket_name |-> bucket_name, value |-> chosen]
    /\ UNCHANGED <<engineVars, optVars, cliVars, provider, authorized, bucket>>

InitClient ==
    /\ local = <<>>
    /\ remote = <<>>
    /\ algorithm = "sha256"
    /\ sync_paths = <<>>
    /\ delete_orphaned = FALSE
    /\ EngineIdle
    /\ DefaultOptions
    /\ CliOff
    /\ provider = "client"
    /\ authorized = FALSE
    /\ bucket = "None"
    /\ config = "None"
    /\ ret = NoRet

NextClient ==
    \E kind \in {"object", "path"}, entries \in ConfigEntries, bucket_name \in NameChoices :
        ClientNew(kind, entries, bucket_name)

SpecClient == InitClient /\ [][NextClient]_vars

(***************************************************************************)
(* The command line: main() runs cmd_sync, which loads the configuration,  *)
(* constructs a BuckiaClient, runs one sync and turns its result into the  *)
(* exit code.                                                              *)
(***************************************************************************)

\* outcomes of TokenManager.get_token for --token-context: no such argument,
\* a token, no token, an exception
TokenOutcomes == {"no_context", "found", "missing", "raise"}

\* the token lookup at the head of cmd_sync
CliToken(outcome) ==
    /\ cli_pc = "main"
    /\ cli_pc' = IF outcome \in {"no_context", "found"} THEN "config" ELSE "done"
    /\ exit_code' = IF outcome \in {"no_context", "found"} THEN exit_code ELSE 1
    /\ UNCHANGED <<engineVars, optVars, libVars, client, connects>>

\* BucketConfig.from_file(config_file) returns a configuration or raises
CliLoadConfig(outcome) ==
    /\ cli_pc = "config"
    /\ cli_pc' = IF outcome = "ok" THEN "client" ELSE "done"
    /\ exit_code' = IF outcome = "ok" THEN exit_code ELSE 1
    /\ UNCHANGED <<engineVars, optVars, libVars, client, connects>>

\* the client the constructor leaves: get_sync_backend returning None raises
\* ValueError; connect() is called once, a false return is logged, an
\* exception of connect() leaves the constructor
ConstructedClient(backend, connect) ==
    IF backend = "None" THEN "failed"
    ELSE CASE connect = "true" -> "connected"
           [] connect = "false" -> "unconnected"
           [] connect = "raise" -> "failed"

\* BuckiaClient(config) in cmd_sync; an exception of the constructor is
\* caught by cmd_sync, which returns 1
ClientInit(backend, connect) ==
    /\ cli_pc = "client"
    /\ client' = ConstructedClient(backend, connect)
    /\ connects' = IF backend = "None" THEN connects ELSE connects + 1
    /\ cli_pc' = IF client' = "failed" THEN "done" ELSE "sync"
    /\ exit_code' = IF client' = "failed" THEN 1 ELSE exit_code
    /\ UNCHANGED <<engineVars, optVars, libVars>>

\* client.sync(**sync_params): one run of the engine, dry or live
CliSyncStart ==
    /\ cli_pc = "sync"
    /\ run = 0
    /\ (SyncDryRun \/ SyncLive)

\* the loops of that run
CliSyncStep ==
    /\ cli_pc = "sync"
    /\ \/ UploadCall
       \/ \E outcome \in Outcomes : UploadReturn(outcome)
       \/ DownloadCall
       \/ \E outcome \in Outcomes : DownloadReturn(outcome)
       \/ DeleteCall
       \/ \E outcome \in Outcomes : DeleteReturn(outcome)
       \/ CallbackRaises
       \/ MakedirsFails

\* the exit code of - return 0 if result.success else 1 -
CliExitCode_AlwaysZero(res) == 0

CliExitCode(res) == IF res.success THEN 0 ELSE 1

\* cmd_sync returns the exit code of the result
CliReturn ==
    /\ cli_pc = "sync"
    /\ pc = "returned" /\ run > 0
    /\ exit_code' = CliExitCode(result)
    /\ cli_pc' = "done"
    /\ UNCHANGED <<engineVars, optVars, libVars, client, connects>>

\* an exception left sync(): cmd_sync logs it and returns 1
CliSyncRaised ==
    /\ cli_pc = "sync"
    /\ pc = "raised"
    /\ exit_code' = 1
    /\ cli_pc' = "done"
    /\ UNCHANGED <<engineVars, optVars, libVars, client, connects>>

\* KeyboardInterrupt: no handler below main catches it (they catch
\* Exception), main returns 130
CliInterrupt ==
    /\ cli_pc \in {"main", "config", "client", "sync"}
    /\ exit_code' = 130
    /\ cli_pc' = "interrupted"
    /\ UNCHANGED <<engineVars, optVars, libVars, client, connects>>

InitCli ==
    /\ local \in UNION {[S -> LocalValues] : S \in SmallSets}
    /\ remote \in UNION {[S -> {[content |-> "c1", Checksum |-> HexDigest("sha256", "c1")]}]
                           : S \in SmallSets}
    /\ algorithm = "sha256"
    /\ sync_paths = <<>>
    /\ delete_orphaned \in BOOLEAN
    /\ EngineIdle
    /\ max_workers = 4
    /\ progress_callback \in {"None", "given"}
    /\ include_pattern = "None"
    /\ exclude_pattern = "None"
    /\ cli_pc = "main"
    /\ exit_code = -1
    /\ client = "none"
    /\ connects = 0
    /\ LibOff

NextCli ==
    \/ \E outcome \in TokenOutcomes : CliToken(outcome)
    \/ \E outcome \in {"ok", "raise"} : CliLoadConfig(outcome)
    \/ \E backend \in {"backend", "None"}, connect \in Outcomes : ClientInit(backend, connect)
    \/ CliSyncStart
    \/ CliSyncStep
    \/ CliReturn
    \/ CliSyncRaised
    \/ CliInterrupt

SpecCli == InitCli /\ [][NextCli]_vars

(***************************************************************************)
(* Properties.                                                             *)
(***************************************************************************)
\* the backend calls a live run makes when every item of the plan is attempted
CallsOf(verb, list) == [k \in 1..Len(list) |-> <<verb, list[k]>>]

ExpectedCalls ==
    CallsOf("upload", to_upload) \o CallsOf("download", to_download)
        \o CallsOf("delete", to_delete)

IsPrefix(s, t) == Len(s) <= Len(t) /\ SubSeq(t, 1, Len(s)) = s

CountCalls(verb) == Cardinality({k \in 1..Len(calls) : calls[k][1] = verb})

LiveReturned == pc = "returned" /\ run > 0 /\ ~dry_run

\* C1: in a live sync a backend call that returns false or raises adds exactly
\* one to failed and leaves the success counters alone, the run goes on with
\* the next item of the plan, and when sync returns every item of the three
\* lists has been attempted, whatever failed on the way.
C1_FailureDoesNotHalt ==
    /\ [][failures' = failures + 1 =>
            /\ result'.failed = result.failed + 1
            /\ Len(result'.errors) = Len(result.errors) + 1
            /\ result'.uploaded = result.uploaded
            /\ result'.downloaded = result.downloaded
            /\ result'.deleted = result.deleted
            /\ (pc' = "returned") = (calls = ExpectedCalls)]_vars
    /\ [](run > 0 /\ ~dry_run => IsPrefix(calls, ExpectedCalls))
    /\ [](LiveReturned => calls = ExpectedCalls)

\* two calls failed and a later list was still processed
C1_Witness ==
    /\ LiveReturned
    /\ result.failed = 2
    /\ Len(to_upload) = 1
    /\ Len(calls) >= 3

\* C2: delete_file is called on r only if delete_orphaned is set, r is in the
\* listing taken at the start of the run, r is not in the scanned local map
\* and, with sync_paths given, r starts with one of the sync paths; without
\* delete_orphaned nothing is deleted, and no path is uploaded and deleted
\* in one run.
C2_DeleteOnlyOrphansInScope ==
    /\ \A k \in 1..Len(calls) :
          calls[k][1] = "delete" =>
            LET r == calls[k][2]
            IN  /\ delete_orphaned
                /\ r \in DOMAIN before.remote
                /\ r \notin Range(local_files.keys)
                /\ (sync_paths # <<>> =>
                      \E j \in 1..Len(sync_paths) :
                          StartsWith(r, ReplaceBackslash(sync_paths[j])))
                /\ \A j \in 1..Len(calls) : calls[j] # <<"upload", r>>
    /\ (~delete_orphaned => result.deleted = 0 /\ CountCalls("delete") = 0)

\* a scoped run has uploaded one path and deleted another
C2_Witness ==
    /\ LiveReturned
    /\ sync_paths # <<>>
    /\ result.deleted >= 1
    /\ result.uploaded >= 1
    /\ \E p \in DOMAIN before.remote : p \notin Range(local_files.keys) /\ p \in DOMAIN remote

\* C3: a dry run calls no backend primitive and creates no directory: the
\* local tree, the directories and the bucket are what they were before the
\* call, and a dry run that follows a dry run returns the same result.
C3_DryRunChangesNothing ==
    (run > 0 /\ dry_run) =>
        /\ calls = <<>>
        /\ inflight = {}
        /\ pc = "returned"
        /\ local = before.local
        /\ dirs = before.dirs
        /\ remote = before.remote
        /\ (prev.valid /\ prev.dry_run => result = prev.result)

\* the second of two dry runs that plan an upload, a download and a deletion
C3_Witness ==
    /\ run = 2 /\ dry_run /\ prev.valid /\ prev.dry_run
    /\ result.uploaded >= 1 /\ result.downloaded >= 1 /\ result.deleted >= 1

\* C4: uploads, then downloads, then deletions: at most one backend call is
\* in flight, the loop over downloads is entered only when every upload has
\* returned, the loop over deletions only when every upload and download has.
Rank(verb) == CASE verb = "upload" -> 1 [] verb = "download" -> 2 [] verb = "delete" -> 3

C4_StrictOrder ==
    (run > 0 /\ ~dry_run) =>
        /\ Cardinality(inflight) <= 1
        /\ \A k, l \in 1..Len(calls) : k < l => Rank(calls[k][1]) <= Rank(calls[l][1])
        /\ \A c \in inflight : c = calls[Len(calls)]
        /\ (\E c \in inflight : c[1] = "download") =>
              CountCalls("upload") = Len(to_upload)
        /\ (\E c \in inflight : c[1] = "delete") =>
              /\ CountCalls("upload") = Len(to_upload)
              /\ CountCalls("download") = Len(to_download)
        /\ (pc = "returned" /\ to_delete # <<>>) =>
              CountCalls("download") = Len(to_download)

\* a deletion is in flight after an upload and a download have returned
C4_Witness ==
    /\ \E c \in inflight : c[1] = "delete"
    /\ CountCalls("upload") >= 1
    /\ CountCalls("download") >= 1

\* C5: a scanned path is planned for upload exactly when the listing does not
\* have it or has it with a checksum that is not the local digest; the other
\* scanned paths are the unchanged ones, whatever delete_orphaned and the
\* protected prefixes are.
C5_UploadOrUnchanged ==
    run > 0 =>
        LET scanned == Range(local_files.keys)
            changed == {p \in scanned :
                           \/ p \notin DOMAIN remote_files
                           \/ remote_files[p].Checksum # DictGet(local_files, p)}
        IN  /\ Range(to_upload) = changed
            /\ Len(to_upload) = Cardinality(changed)
            /\ result.unchanged = Cardinality(scanned \ changed)
            /\ Len(to_upload) + result.unchanged = Cardinality(scanned)

\* a plan with an upload under a protected prefix next to an unchanged path
C5_Witness ==
    /\ run > 0
    /\ delete_orphaned
    /\ result.unchanged >= 1
    /\ \E k \in 1..Len(to_upload) : IsProtected(to_upload[k])

\* the remote paths the scan did not find whose target path, the root joined
\* with the remote path, starts with one of the supplied sync_paths
ProtectedRemoteOnly ==
    {p \in DOMAIN remote_files :
        /\ p \notin Range(local_files.keys)
        /\ \E k \in 1..Len(sync_paths) :
              StartsWith(LocalRoot \o "/" \o p, PathStr(sync_paths[k]))}

\* C6: no remote-only path under a protected prefix is downloaded, and
\* protected_skipped is the number of remote-only paths under a protected
\* prefix.
C6_ProtectedSkippedCount ==
    run > 0 =>
        /\ \A k \in 1..Len(calls) :
              calls[k][1] = "download" => calls[k][2] \notin ProtectedRemoteOnly
        /\ result.protected_skipped = Cardinality(ProtectedRemoteOnly)

\* C7: to_upload, to_download and to_delete are pairwise disjoint.
C7_PlanDisjoint ==
    run > 0 =>
        /\ Range(to_upload) \cap Range(to_download) = {}
        /\ Range(to_upload) \cap Range(to_delete) = {}
        /\ Range(to_download) \cap Range(to_delete) = {}

\* the scanned paths whose upload is recorded in errors
FailedUploads ==
    {p \in Range(local_files.keys) :
        \/ ("Failed to upload: " \o p) \in Range(result.errors)
        \/ ("Error uploading " \o p \o ": boom") \in Range(result.errors)}

\* C8 as stated: after a live run uploaded + unchanged + failed is the number
\* of scanned local paths.
C8_PartitionWithFailed ==
    LiveReturned =>
        result.uploaded + result.unchanged + result.failed = Len(local_files.keys)

\* C8 amended: after a live run every scanned path is an uploaded one, an
\* unchanged one or one whose upload failed, and never two of these; failed
\* also counts the downloads and deletions that failed, so it makes up the
\* number of scanned paths only when none of those failed.
C8_PartitionOfUploads ==
    LiveReturned =>
        /\ FailedUploads \subseteq Range(to_upload)
        /\ result.uploaded = Len(to_upload) - Cardinality(FailedUploads)
        /\ result.uploaded + result.unchanged + Cardinality(FailedUploads)
              = Len(local_files.keys)
        /\ result.failed >= Cardinality(FailedUploads)
        /\ (result.failed = Cardinality(FailedUploads)) =
              (result.uploaded + result.unchanged + result.failed = Len(local_files.keys))

\* an upload succeeded, an upload failed and a download failed
C8_Witness ==
    /\ LiveReturned
    /\ result.uploaded >= 1
    /\ Cardinality(FailedUploads) = 1
    /\ result.failed = 2
    /\ result.downloaded = 0 /\ to_download # <<>>

\* C9: a live run that follows a live run without failures, on a bucket whose
\* objects all carry the digest of their content, returns uploaded = 0,
\* deleted = 0 and unchanged = the number of scanned local files.
C9_SecondRunIdle ==
    ( /\ LiveReturned
      /\ prev.valid /\ ~prev.dry_run /\ prev.result.failed = 0
      /\ \A p \in DOMAIN remote_files :
            remote_files[p].Checksum = calculate_checksum(remote_files[p].content) )
    => /\ result.uploaded = 0
       /\ result.deleted = 0
       /\ to_upload = <<>>
       /\ to_delete = <<>>
       /\ result.unchanged = Len(local_files.keys)

\* C10: when a live sync returns, success is true exactly when failed is 0.
C10_SuccessIffNoFailure ==
    LiveReturned => (result.success = (result.failed = 0))

\* a live run returned with an upload done and a failure recorded
C10_Witness ==
    /\ LiveReturned
    /\ result.failed >= 1
    /\ result.uploaded >= 1
    /\ ~result.success

\* the entry of errors that the k-th backend call of the run leaves when it fails
ErrorEntry(k) ==
    LET verb == calls[k][1]
        path == calls[k][2]
        verbing == CASE verb = "upload" -> "uploading"
                     [] verb = "download" -> "downloading"
                     [] verb = "delete" -> "deleting"
    IN  IF returns[k] = "false" THEN "Failed to " \o verb \o ": " \o path
        ELSE "Error " \o verbing \o " " \o path \o ": boom"

\* the failed calls of the run, in the order in which they were made
FailedCalls == SelectSeq([k \in 1..Len(returns) |-> k], LAMBDA k : returns[k] # "true")

\* C11: at every point of a live run errors has failed entries, one per failed
\* call in the order of the calls (uploads, then downloads, then deletions),
\* 'Failed to <verb>: <path>' for a false return and 'Error <verb-ing> <path>:
\* <message>' for an exception.
C11_ErrorsInOrder ==
    (run > 0 /\ ~dry_run) =>
        /\ Len(result.errors) = result.failed
        /\ result.errors = [j \in 1..Len(FailedCalls) |-> ErrorEntry(FailedCalls[j])]
        /\ \A j, l \in 1..Len(FailedCalls) :
              j < l => Rank(calls[FailedCalls[j]][1]) <= Rank(calls[FailedCalls[l]][1])

\* an upload returned false and a later deletion raised
C11_Witness ==
    /\ LiveReturned
    /\ Len(result.errors) = 2
    /\ \E k, l \in 1..Len(returns) :
          /\ k < l
          /\ returns[k] = "false" /\ calls[k][1] = "upload"
          /\ returns[l] = "raise" /\ calls[l][1] = "delete"

C13_DryRunCounts ==
    (run > 0 /\ dry_run) =>
        /\ result.uploaded = Len(to_upload)
        /\ result.downloaded = Len(to_download)
        /\ result.deleted = Len(to_delete)
        /\ result.failed = 0
        /\ result.errors = <<>>
        /\ result.success

\* a first dry run that reports one upload, one download, one deletion and
\* one unchanged file
C13_Witness ==
    /\ run = 1 /\ dry_run
    /\ result.uploaded = 1 /\ result.downloaded = 1 /\ result.deleted = 1
    /\ result.unchanged = 1

\* C15: a scanned file whose digest is empty, or whose remote record has an
\* empty or no checksum, is planned for upload and not counted unchanged.
C15_EmptyChecksumUploads ==
    run > 0 =>
        \A p \in Range(local_files.keys) :
            ( \/ DictGet(local_files, p) = ""
              \/ (p \in DOMAIN remote_files
                    /\ remote_files[p].Checksum \in {"", NoChecksum}) )
            => p \in Range(to_upload)

\* the local files that are new or differ from the object of the same path
NewOrModified ==
    {p \in DOMAIN before.local :
        \/ p \notin DOMAIN before.remote
        \/ before.remote[p].Checksum # calculate_checksum(before.local[p])}

RemoteOnly == DOMAIN before.remote \ DOMAIN before.local

Matches(pattern, path) == StartsWith(path, SubSeq(pattern, 2, Len(pattern)))

Planned == Range(to_upload) \cup Range(to_download) \cup Range(to_delete)

\* C14: sync plans and acts only on paths that match include_pattern and
\* never on a path that matches exclude_pattern.
C14_PatternsFilter ==
    run > 0 =>
        \A p \in Planned \cup {c[2] : c \in Range(calls)} :
            /\ include_pattern # "None" => Matches(include_pattern, p)
            /\ exclude_pattern # "None" => ~Matches(exclude_pattern, p)

\* C16: during a live sync the number of backend calls in flight never
\* exceeds max_workers, whatever value was passed.
C16_WithinMaxWorkers ==
    (run > 0 /\ ~dry_run) => Cardinality(inflight) <= max_workers

\* the invocations a whole live run makes: per list, (k, N, action, path)
ProgressOf(verb) ==
    [k \in 1..Len(ListOf(verb)) |-> <<k, Len(ListOf(verb)), ActionName(verb), ListOf(verb)[k]>>]

ExpectedProgress == ProgressOf("upload") \o ProgressOf("download") \o ProgressOf("delete")

C19_ConstructionSurvivesConnect ==
    /\ connects <= 1
    /\ connects = 1 => client \in {"connected", "unconnected"}

\* C20: the sync command exits 0 exactly when sync() returned success; it
\* exits 1 when the result has failures, when the configuration cannot be
\* loaded, when the constructor raises and when sync() raises; an
\* interrupted run exits 130; a run with failed > 0 never exits 0.
C20_ExitCodes ==
    /\ cli_pc = "done" =>
          /\ exit_code \in {0, 1}
          /\ exit_code = 0 <=> (pc = "returned" /\ run = 1 /\ result.success)
          /\ (run = 1 /\ result.failed > 0) => exit_code = 1
          /\ client \in {"none", "failed"} => exit_code = 1
          /\ pc = "raised" => exit_code = 1
    /\ cli_pc = "interrupted" => exit_code = 130
    /\ exit_code = 130 => cli_pc = "interrupted"
    /\ cli_pc \notin {"done", "interrupted"} => exit_code = -1

\* the command returned 1 for a sync that ran to its end with a failed item
C20_Witness ==
    /\ cli_pc = "done"
    /\ exit_code = 1
    /\ pc = "returned" /\ run = 1 /\ ~dry_run
    /\ result.failed > 0
    /\ result.uploaded + result.downloaded + result.deleted > 0

\* the path components of an absolute path
Parts(a) == SelectSeq(Components(a, ""), LAMBDA c : c # "")

\* p is named by a scope entry or lies inside a scope directory
InLocalScope(p) ==
    \E k \in 1..Len(sync_paths) :
        IsPrefix(Parts(PathJoin(LocalRoot, sync_paths[k])), Parts(AbsPath(p)))

\* C23: a scan with a scope returns exactly the local files named by a scope
\* entry or lying inside a scope directory, each keyed once by its
\* root-relative path; an entry that names nothing adds nothing and does
\* not stop the scan of the others.
C23_ScopedScan ==
    (run > 0 /\ sync_paths # <<>>) =>
        /\ Range(local_files.keys) = {p \in DOMAIN before.local : InLocalScope(p)}
        /\ \A j, l \in 1..Len(local_files.keys) :
              j # l => local_files.keys[j] # local_files.keys[l]
        /\ Len(local_files.ck) = Len(local_files.keys)

\* the scope names a missing entry first and a file second: the file is
\* scanned, the file outside the scope is not
C23_Witness ==
    /\ run > 0
    /\ sync_paths = <<"nf", "i/x">>
    /\ local_files.keys = <<"i/x">>
    /\ Cardinality(DOMAIN before.local) = 2

\* C25: with sync_paths a remote path is in scope for download and deletion
\* exactly when the scanner has it in scope, so a path that only shares a
\* string prefix with a scope entry is neither downloaded nor deleted.
C25_RemoteScopeIsLocalScope ==
    (run > 0 /\ sync_paths # <<>>) =>
        /\ \A p \in DOMAIN remote_files : InSyncPaths(p) <=> InLocalScope(p)
        /\ \A p \in Range(to_download) \cup Range(to_delete) : InLocalScope(p)

AllTrue == \A k \in 1..Len(returns) : returns[k] = "true"

\* C26: after a live sync without sync_paths whose backend calls all
\* succeeded the local paths are the remote paths, with and without
\* delete_orphaned.
C26_Converges ==
    (LiveReturned /\ sync_paths = <<>> /\ AllTrue) => DOMAIN local = DOMAIN remote

\* C27: once the plan is computed a live sync is in one of its loops or has
\* returned a SyncResult: no exception of os.makedirs or of the progress
\* callback leaves it.
C27_NoExceptionLeavesSync ==
    (run > 0 /\ ~dry_run) => pc \in {"uploading", "downloading", "deleting", "returned"}

\* C28: a dry run followed by a live run on the same tree, bucket and
\* options, with every backend call returning true, report the same
\* uploaded, downloaded, deleted, unchanged and protected_skipped.
C28_DryEqualsLive ==
    (LiveReturned /\ run = 2 /\ prev.valid /\ prev.dry_run /\ AllTrue) =>
        /\ result.uploaded = prev.result.uploaded
        /\ result.downloaded = prev.result.downloaded
        /\ result.deleted = prev.result.deleted
        /\ result.unchanged = prev.result.unchanged
        /\ result.protected_skipped = prev.result.protected_skipped

\* a dry run and then a clean live run that uploaded, downloaded and deleted
C28_Witness ==
    /\ LiveReturned /\ run = 2 /\ prev.valid /\ prev.dry_run /\ AllTrue
    /\ result.uploaded >= 1 /\ result.downloaded >= 1 /\ result.deleted >= 1
    /\ prev.result.deleted >= 1

\* C24: calculate_checksum never raises; under an algorithm name that is not
\* sha256, md5 or sha1 it returns the sha256 digest of the file, and for a
\* file that cannot be read it returns the empty string.
C24_ChecksumNeverRaises ==
    ret.op = "calculate_checksum" =>
        /\ ret.value # Raised
        /\ local[ret.path] = Unreadable => ret.value = ""
        /\ (local[ret.path] # Unreadable /\ algorithm \notin {"sha256", "md5", "sha1", "SHA256", "Md5"})
              => ret.value = HexDigest("sha256", local[ret.path])

\* C21: on either backend delete_file(p), served by the provider, returns
\* true whether p was there or not and leaves p absent; called again after
\* it returned true it returns true again and leaves the bucket as it was.
C21_DeleteIdempotent ==
    (ret.op = "delete_file" /\ ret.served) =>
        /\ ret.value = TRUE
        /\ ret.path \notin DOMAIN remote
        /\ ret.repeat => ret.same

\* C22: list_remote_files does not raise; when anything failed it returns
\* the empty map, and what it returns is never a part of the bucket only.
C22_ListingAllOrNothing ==
    ret.op = "list_remote_files" =>
        /\ ~ret.raised
        /\ ret.failed => ret.value = {}
        /\ ret.value \in {{}, DOMAIN remote}

\* C29: on the B2 backend authorized implies that a bucket handle is held,
\* and an operation called without a handle has attempted connect() first
\* and returned its failure value when connect failed.
C29_AuthorizedHasBucket ==
    provider = "b2" =>
        /\ authorized => bucket # "None"
        /\ (ret.op \in {"delete_file", "upload_file", "list_remote_files"}
              /\ ~ret.had_bucket)
           => /\ ret.tried
              /\ ~ret.connected =>
                    ret.value = (IF ret.op = "list_remote_files" THEN {} ELSE FALSE)

\* C30: the constructor uses the entry named by bucket_name when it is given
\* and present, and raises ValueError when the name is absent or when no
\* name is given and there are several entries and no "default"; for an
\* object and for a path alike, it never uses another entry instead.
C30_NamedBucketOrError ==
    ret.op = "BuckiaClient" =>
        LET names == Range(ret.entries)
            N == ret.bucket_name
        IN  /\ (N # "None" /\ N \in names) => (ret.value = N /\ config = N)
            /\ (N # "None" /\ N \notin names) => ret.value = "ValueError"
            /\ (N = "None" /\ Cardinality(names) > 1 /\ "default" \notin names)
                  => ret.value = "ValueError"
            /\ ret.value = "ValueError" => config = "None"

====
